---- MODULE Spec2Model ----
(***************************************************************************)
(* Model of the rave lexer: src/src/lexer.rs (Lexer, TokenBox) and the     *)
(* leaf token kinds of src/src/lexer/tokens.rs.                            *)
(*                                                                         *)
(* A &str is a sequence of characters; every character has a UTF-8 byte    *)
(* length (Utf8Len), and lengths, offsets and slices are measured in bytes *)
(* as in Rust.  A token value is its span, a record [start, end].          *)
(***************************************************************************)
EXTENDS Integers, Sequences, FiniteSets, TLC

\* ------------------------------------------------------------------ bounds
\* Longest input text explored exhaustively (in characters).
MaxLen == 3
\* Largest lookahead capacity (the const generic LOOKAHEAD) explored.
MaxLookahead == 2
\* Largest start offset handed to a bare T::parse(start, input).
MaxStart == 2

\* ------------------------------------------------------- characters, text
\* Characters of two bytes in UTF-8 ("e'" is U+00E9, alphabetic; "nbsp" is
\* U+00A0, white space).  Every other character of the model is ASCII.
MultiByte == {"e'", "nbsp"}

Utf8Len(c) == IF c \in MultiByte THEN 2 ELSE 1

\* char::is_whitespace
IsWhitespace(c) == c \in {" ", "nbsp"}

\* char::is_alphabetic
IsAlphabetic(c) == c \in {"a", "b", "x", "e'"}

\* char::is_ascii_digit
IsAsciiDigit(c) == c \in {"0", "1", "2"}

\* char::is_ascii_hexdigit
IsAsciiHexdigit(c) == c \in {"0", "1", "2", "a", "b"}

\* str::len: the length of a text in bytes.
RECURSIVE StrLen(_)
StrLen(s) == IF s = <<>> THEN 0 ELSE Utf8Len(Head(s)) + StrLen(Tail(s))

\* The characters of s from character position k+1 on.
Drop(s, k) == SubSeq(s, k + 1, Len(s))

\* &s[k..] with k a byte offset: the slice, or a panic when k is past the
\* end or inside a character.
RECURSIVE SliceFrom(_, _)
SliceFrom(s, k) ==
    IF k = 0 THEN [ok |-> TRUE, rest |-> s]
    ELSE IF s = <<>> \/ Utf8Len(Head(s)) > k THEN [ok |-> FALSE, rest |-> s]
    ELSE SliceFrom(Tail(s), k - Utf8Len(Head(s)))

\* str::strip_prefix / starts_with for a literal pattern.
StartsWith(s, pat) == Len(s) >= Len(pat) /\ SubSeq(s, 1, Len(pat)) = pat

\* chars().take_while(|c| c in class).count(): a number of CHARACTERS.
RECURSIVE CountWhile(_, _)
CountWhile(s, class) ==
    IF s # <<>> /\ Head(s) \in class THEN 1 + CountWhile(Tail(s), class) ELSE 0

Universe == {"+", "-", "*", "/", " ", ".", "a", "b", "x", "0", "1", "2", "e'", "nbsp"}
Alphabetic == {c \in Universe : IsAlphabetic(c)}
DecimalBody == {c \in Universe : IsAsciiDigit(c) \/ c = "."}
HexBody == {c \in Universe : IsAsciiHexdigit(c)}
BinaryBody == {"0", "1"}

\* ------------------------------------------------------------ token kinds
\* The four operator kinds of the repository's test, Ident, Number, and
\* Strict: a caller-defined Token whose parse can fail.  No kind of
\* tokens.rs returns Some(Err(..)); Strict is the caller's kind that puts
\* the engine's Some(Err(err)) arms to use: "++" matches, a lone "+" is
\* malformed, anything else is no match.
SimpleKinds == {"Plus", "Minus", "Star", "Slash"}
Kinds == SimpleKinds \cup {"Ident", "Number", "Strict"}

\* simple_token!($token => $name): the text of each kind.
TokenText(T) ==
    CASE T = "Plus" -> <<"+">>
      [] T = "Minus" -> <<"-">>
      [] T = "Star" -> <<"*">>
      [] T = "Slash" -> <<"/">>

\* Option<Result<(Self, usize)>>
NoMatch == [tag |-> "None", tok |-> [start |-> 0, end |-> 0], consumed |-> 0]
Malformed == [tag |-> "Err", tok |-> [start |-> 0, end |-> 0], consumed |-> 0]
Matched(start, consumed) ==
    [tag |-> "Ok", tok |-> [start |-> start, end |-> start + consumed],
     consumed |-> consumed]

\* simple_token!: parse
SimpleParse(T, start, input) ==
    IF StartsWith(input, TokenText(T))
    THEN LET new == Drop(input, Len(TokenText(T)))
             consumed == StrLen(input) - StrLen(new)
         IN  Matched(start, consumed)
    ELSE NoMatch

\* Ident::parse
IdentParse(start, input) ==
    IF input # <<>> /\ IsAlphabetic(Head(input))
    THEN LET new == Tail(input)
             consumed == StrLen(input) - StrLen(new) + CountWhile(new, Alphabetic)
         IN  Matched(start, consumed)
    ELSE NoMatch

\* Number::parse.  chars is an iterator over input; every match guard that
\* is evaluated calls chars.next() and so takes one more character, also
\* when the guard is false.  taken(k) is the text the iterator has yielded
\* after k calls, rest(k) is chars.as_str().
NumberParse(start, input) ==
    LET taken(k) == IF k < Len(input) THEN k ELSE Len(input)
        rest(k) == Drop(input, taken(k))
        nth(k) == IF k <= Len(input) THEN input[k] ELSE "none"
        result(k, class) ==
            Matched(start, StrLen(input) - StrLen(rest(k)) + CountWhile(rest(k), class))
    IN  IF input = <<>> THEN NoMatch
        ELSE IF Head(input) = "0"
        THEN IF nth(2) = "x" THEN result(2, HexBody)
             ELSE IF nth(3) = "b" THEN result(3, BinaryBody)
             ELSE result(3, DecimalBody)
        ELSE IF IsAsciiDigit(Head(input)) THEN result(1, DecimalBody)
        ELSE NoMatch

\* The caller-defined kind Strict (an impl of Token::parse outside the
\* repository, following the convention of tokens.rs for the second
\* component).
StrictParse(start, input) ==
    IF StartsWith(input, <<"+", "+">>) THEN Matched(start, 2)
    ELSE IF StartsWith(input, <<"+">>) THEN Malformed
    ELSE NoMatch

\* T::parse(start, input)
Parse(T, start, input) ==
    CASE T \in SimpleKinds -> SimpleParse(T, start, input)
      [] T = "Ident" -> IdentParse(start, input)
      [] T = "Number" -> NumberParse(start, input)
      [] T = "Strict" -> StrictParse(start, input)

\* ------------------------------------------------------------------ state
VARIABLES
    orig,       \* the text the lexer was constructed over
    input,      \* Lexer::input, the remaining text
    index,      \* Lexer::index, the cursor offset
    buf,        \* Lexer::buf, front first
    LOOKAHEAD,  \* the capacity of buf
    ret         \* the last call and what it returned

vars == <<orig, input, index, buf, LOOKAHEAD, ret>>

NoSpan == [start |-> 0, end |-> 0]

\* What a call returned.  outcome is "token" (Some(Ok(..))), "none" (None),
\* "err" (Some(Err(..))) or "panic"; cell is the type_id of the buffered
\* cell the token was read from, and cached tells whether it was read from
\* the buffer without parsing.
Outcome(op, T, n, outcome, span, cell, cached, msg) ==
    [op |-> op, T |-> T, n |-> n, outcome |-> outcome, span |-> span,
     cell |-> cell, cached |-> cached, msg |-> msg]

\* TokenBox::new: the value's bytes and the type_id of its kind.  Every kind
\* is a Range<usize>, 16 bytes aligned to 8, so the asserts hold.
TokenBoxNew(T, value) == [type_id |-> T, data |-> value]

\* TokenBox::is
Is(cell, T) == cell.type_id = T

\* Lexer::trim: one byte per white-space character; slicing inside a
\* character of more than one byte panics.
RECURSIVE Trim(_, _)
Trim(idx, s) ==
    IF s # <<>> /\ IsWhitespace(Head(s))
    THEN IF Utf8Len(Head(s)) = 1 THEN Trim(idx + 1, Tail(s))
         ELSE [ok |-> FALSE, index |-> idx + 1, input |-> s]
    ELSE [ok |-> TRUE, index |-> idx, input |-> s]

\* The texts a lexer is constructed over: every text of at most MaxLen
\* characters over Alphabet, the text of the repository's test
\* ("++ -- ** //") and one longer text of mixed kinds ("bb +  10 b").
Alphabet == {"+", " ", "b", "0", "1"}
TestInput == <<"+", "+", " ", "-", "-", " ", "*", "*", " ", "/", "/">>
MixedInput == <<"b", "b", " ", "+", " ", " ", "1", "0", " ", "b">>
Inputs == UNION {[1..n -> Alphabet] : n \in 0..MaxLen} \cup {TestInput, MixedInput}

\* The depths peek_n is called with.
Depths == 0..MaxLookahead

\* Lexer::new
Init ==
    /\ orig \in Inputs
    /\ input = orig
    /\ index = 0
    /\ buf = <<>>
    /\ LOOKAHEAD \in 1..MaxLookahead
    /\ ret = Outcome("new", "-", 0, "none", NoSpan, "-", FALSE, "")

\* A panic ends the program: no call follows it.
Running == ret.outcome # "panic"

\* ------------------------------------------------------------- operations
\* The cursor after a parse: [ok, index, input]; ok is FALSE when slicing
\* the input panicked.

\* Mutant of PeekCursor: the cursor is set but the remaining input is not
\* sliced.
PeekCursorKeep(r) ==
    IF r.tag # "Ok" THEN [ok |-> TRUE, index |-> index, input |-> input]
    ELSE [ok |-> TRUE, index |-> r.consumed, input |-> input]

\* peek / peek_n, Some(Ok(token)) arm: self.index = token.1;
\* self.input = &self.input[self.index..]; self.trim().  Every other
\* outcome of the parse returns before the cursor is touched.
PeekCursor(r) ==
    IF r.tag # "Ok" THEN [ok |-> TRUE, index |-> index, input |-> input]
    ELSE LET sl == SliceFrom(input, r.consumed)
         IN  IF sl.ok THEN Trim(r.consumed, sl.rest)
             ELSE [ok |-> FALSE, index |-> r.consumed, input |-> input]

\* Mutant of GetCursor: the cursor is set to val.1 instead of advanced by it.
GetCursorAssign(r) ==
    IF r.tag # "Ok" THEN [ok |-> TRUE, index |-> index, input |-> input]
    ELSE LET sl == SliceFrom(input, r.consumed)
         IN  IF sl.ok THEN Trim(r.consumed, sl.rest)
             ELSE [ok |-> FALSE, index |-> r.consumed, input |-> input]

\* Mutant of GetCursor: white space is trimmed whatever the parse returned.
GetCursorTrimAlways(r) ==
    IF r.tag # "Ok" THEN Trim(index, input)
    ELSE LET sl == SliceFrom(input, r.consumed)
         IN  IF sl.ok THEN Trim(index + r.consumed, sl.rest)
             ELSE [ok |-> FALSE, index |-> index + r.consumed, input |-> input]

\* get, the closure run on Some(Ok(val)): self.index += val.1;
\* self.input = &self.input[val.1..]; self.trim().
GetCursor(r) ==
    IF r.tag # "Ok" THEN [ok |-> TRUE, index |-> index, input |-> input]
    ELSE LET sl == SliceFrom(input, r.consumed)
         IN  IF sl.ok THEN Trim(index + r.consumed, sl.rest)
             ELSE [ok |-> FALSE, index |-> index + r.consumed, input |-> input]

\* Mutant of PushBack: the push never fails.
PushBackUnchecked(b, cell) == [ok |-> TRUE, buf |-> Append(b, cell)]

\* heapless::Deque::push_back on a deque of capacity LOOKAHEAD: Err(item)
\* when full, which .expect("Out of space") turns into a panic.
PushBack(b, cell) ==
    IF Len(b) < LOOKAHEAD THEN [ok |-> TRUE, buf |-> Append(b, cell)]
    ELSE [ok |-> FALSE, buf |-> b]

\* Mutant of PeekCached: the front entry is examined instead of the back.
PeekCachedFront(T) == buf # <<>> /\ Is(buf[1], T)

\* peek: the buffer is not empty and its back entry is a T.
PeekCached(T) == buf # <<>> /\ Is(buf[Len(buf)], T)

\* peek_n: the buffer holds more than n entries and entry n is a T.
PeekNCached(T, n) == Len(buf) > n /\ Is(buf[n + 1], T)

\* Mutant of DepthOk: a depth beyond the buffer's length is let through.
DepthAtMost(n) == Len(buf) <= n

\* peek_n: assert_eq!(self.buf.len(), n)
DepthOk(n) == Len(buf) = n

\* get: the buffer is not empty and self.buf.iter().last() is a T.
GetCached(T) == buf # <<>> /\ Is(buf[Len(buf)], T)

\* A call that returns a buffered cell read as a T (downcast_ref / downcast).
ReturnCell(op, T, n, cell) ==
    ret' = Outcome(op, T, n, "token", cell.data, cell.type_id, TRUE, "")

Panic(op, T, n, msg) == ret' = Outcome(op, T, n, "panic", NoSpan, "-", FALSE, msg)

\* The second half of peek and of peek_n (the same code twice): parse at the
\* cursor, and on a match move the cursor, box the token, push it and return
\* a reference to the back of the buffer.
ParseAndCache(op, T, n) ==
    LET r == Parse(T, index, input)
        c == PeekCursor(r)
        p == PushBack(buf, TokenBoxNew(T, r.tok))
    IN  /\ index' = c.index
        /\ input' = c.input
        /\ CASE r.tag = "None" ->
                  /\ buf' = buf
                  /\ ret' = Outcome(op, T, n, "none", NoSpan, "-", FALSE, "")
             [] r.tag = "Err" ->
                  /\ buf' = buf
                  /\ ret' = Outcome(op, T, n, "err", NoSpan, "-", FALSE, "")
             [] r.tag = "Ok" /\ ~c.ok ->
                  /\ buf' = buf
                  /\ Panic(op, T, n, "byte index is not a char boundary")
             [] r.tag = "Ok" /\ c.ok /\ ~p.ok ->
                  /\ buf' = buf
                  /\ Panic(op, T, n, "Out of space")
             [] r.tag = "Ok" /\ c.ok /\ p.ok ->
                  /\ buf' = p.buf
                  /\ ret' = Outcome(op, T, n, "token", p.buf[Len(p.buf)].data,
                                    p.buf[Len(p.buf)].type_id, FALSE, "")

\* Lexer::peek::<T>()
Peek(T) ==
    /\ Running
    /\ IF PeekCached(T)
       THEN /\ ReturnCell("peek", T, 0, buf[Len(buf)])
            /\ UNCHANGED <<index, input, buf>>
       ELSE ParseAndCache("peek", T, 0)
    /\ UNCHANGED <<orig, LOOKAHEAD>>

\* Lexer::peek_n::<T>(n), the call recorded in ret under the name op.
PeekNAs(op, T, n) ==
    /\ Running
    /\ IF PeekNCached(T, n)
       THEN /\ ReturnCell(op, T, n, buf[n + 1])
            /\ UNCHANGED <<index, input, buf>>
       ELSE IF ~DepthOk(n)
       THEN /\ Panic(op, T, n, "assertion failed: left == right")
            /\ UNCHANGED <<index, input, buf>>
       ELSE ParseAndCache(op, T, n)
    /\ UNCHANGED <<orig, LOOKAHEAD>>

\* Lexer::peek_n::<T>(n)
PeekN(T, n) == PeekNAs("peek_n", T, n)

\* Lexer::get::<T>()
Get(T) ==
    /\ Running
    /\ IF GetCached(T)
       THEN \* pop_front, then downcast::<T> of the popped cell
            /\ ReturnCell("get", T, 0, Head(buf))
            /\ buf' = Tail(buf)
            /\ UNCHANGED <<index, input>>
       ELSE LET r == Parse(T, index, input)
                c == GetCursor(r)
            IN  /\ index' = c.index
                /\ input' = c.input
                /\ buf' = buf
                /\ CASE r.tag = "None" ->
                          ret' = Outcome("get", T, 0, "none", NoSpan, "-", FALSE, "")
                     [] r.tag = "Err" ->
                          ret' = Outcome("get", T, 0, "err", NoSpan, "-", FALSE, "")
                     [] r.tag = "Ok" /\ ~c.ok ->
                          Panic("get", T, 0, "byte index is not a char boundary")
                     [] r.tag = "Ok" /\ c.ok ->
                          ret' = Outcome("get", T, 0, "token", r.tok, T, FALSE, "")
    /\ UNCHANGED <<orig, LOOKAHEAD>>

Next ==
    \/ \E T \in Kinds : Peek(T)
    \/ \E T \in Kinds, n \in Depths : PeekN(T, n)
    \/ \E T \in Kinds : Get(T)

Spec == Init /\ [][Next]_vars

\* A lexer driven by get alone.
NextGet == \E T \in Kinds : Get(T)

SpecGet == Init /\ [][NextGet]_vars

\* ----------------------------------------------------------------- claims
\* The byte offset in orig at which the remaining input begins.
TrueOffset == StrLen(orig) - StrLen(input)

\* The characters of s that begin at a byte offset in [a, b).
RECURSIVE SpanText(_, _, _)
SpanText(s, a, b) ==
    IF s = <<>> \/ b <= 0 THEN <<>>
    ELSE LET w == Utf8Len(Head(s))
         IN  IF a <= 0 THEN <<Head(s)>> \o SpanText(Tail(s), a - w, b - w)
             ELSE SpanText(Tail(s), a - w, b - w)

AllWhitespace(text) == \A i \in 1..Len(text) : IsWhitespace(text[i])

Called == ret.op \in {"peek", "peek_n", "get"}

\* C1: whenever the front entry of the buffer is a T, get::<T>() returns
\* that entry (its span), removes exactly it, and leaves the cursor and the
\* remaining input alone, whatever the kinds of the entries behind it.
C1_GetReturnsFront ==
    [][(ret'.op = "get" /\ buf # <<>> /\ Is(buf[1], ret'.T))
        => /\ ret'.outcome = "token"
           /\ ret'.span = buf[1].data
           /\ buf' = Tail(buf)
           /\ index' = index
           /\ input' = input]_vars

\* C2: a token read from a buffered cell is read as the kind the cell was
\* stored as: the cell's type_id equals the requested T.
C2_TypedReadsGuarded ==
    (Called /\ ret.outcome = "token") => ret.cell = ret.T

\* The text a token of kind T must cover, as far as its kind's pattern fixes
\* it from the first character on.
Begins(T, text) ==
    CASE T \in SimpleKinds -> text = TokenText(T)
      [] T = "Ident" -> text # <<>> /\ \A i \in 1..Len(text) : IsAlphabetic(text[i])
      [] T = "Number" -> text # <<>> /\ IsAsciiDigit(text[1])
      [] T = "Strict" -> text = <<"+", "+">>

\* The spans the repository's test asserts for "++ -- ** //", by kind.
TestStarts(T) ==
    CASE T = "Plus" -> {0, 1}
      [] T = "Minus" -> {3, 4}
      [] T = "Star" -> {6, 7}
      [] T = "Slash" -> {9, 10}
      [] OTHER -> {}

C4_CursorNeverRewinds == [][index' >= index]_vars

\* C5: the buffered spans are in parse order and do not overlap, only white
\* space lies between one and the next, and the newest ends at or before
\* the cursor.
C5_BufferedSpansOrdered ==
    /\ \A i \in 1..Len(buf) : buf[i].data.start < buf[i].data.end
    /\ \A i \in 1..(Len(buf) - 1) :
          /\ buf[i].data.end <= buf[i + 1].data.start
          /\ AllWhitespace(SpanText(orig, buf[i].data.end, buf[i + 1].data.start))
    /\ buf # <<>> => buf[Len(buf)].data.end <= index

\* C6: the buffer never holds more than LOOKAHEAD entries, and a peek or
\* peek_n whose parse matches while the buffer is full panics with "Out of
\* space": it returns nothing and the buffer does not grow.
C6_CapacityIsFatal ==
    /\ [](Len(buf) <= LOOKAHEAD)
    /\ [][(/\ Len(buf) = LOOKAHEAD
           /\ \/ ret'.op = "peek" /\ ~Is(buf[Len(buf)], ret'.T)
              \/ ret'.op = "peek_n" /\ ret'.n = Len(buf)
           /\ Parse(ret'.T, index, input).tag = "Ok")
           => /\ ret'.outcome = "panic"
              /\ ret'.msg = "Out of space"
              /\ buf' = buf]_vars

\* C6 witness: a peek or peek_n has panicked on a full buffer.
C6_Witness ==
    /\ ret.outcome = "panic" /\ ret.msg = "Out of space"
    /\ Len(buf) = LOOKAHEAD

\* C7: a peek (peek_n at the same depth) for the same kind right after one
\* that returned a token returns a token of the same span, read from the
\* buffer, and changes neither the cursor, nor the input, nor the buffer.
\* The same holds across calls in between that are no get and do not
\* advance: a successful peek leaves its token at the back (peek_n(n) at
\* entry n), a call that is no get and parses nothing leaves the buffer as
\* it is, and a peek (peek_n) that finds its kind there returns that entry.
C7_RepeatedPeekIdempotent ==
    [][/\ (/\ ret.op \in {"peek", "peek_n"} /\ ret.outcome = "token"
           /\ ret'.op = ret.op /\ ret'.T = ret.T /\ ret'.n = ret.n)
           => /\ ret'.outcome = "token"
              /\ ret'.span = ret.span
              /\ ret'.cached
              /\ index' = index
              /\ input' = input
              /\ buf' = buf
       /\ (ret'.op = "peek" /\ ret'.outcome = "token")
           => buf'[Len(buf')] = [type_id |-> ret'.T, data |-> ret'.span]
       /\ (ret'.op = "peek_n" /\ ret'.outcome = "token")
           => buf'[ret'.n + 1] = [type_id |-> ret'.T, data |-> ret'.span]
       /\ (ret'.op \in {"peek", "peek_n"} /\ input' = input) => buf' = buf
       /\ (ret'.op = "peek" /\ buf # <<>> /\ Is(buf[Len(buf)], ret'.T))
           => /\ ret'.outcome = "token" /\ ret'.span = buf[Len(buf)].data
              /\ index' = index /\ input' = input /\ buf' = buf
       /\ (ret'.op = "peek_n" /\ Len(buf) > ret'.n /\ Is(buf[ret'.n + 1], ret'.T))
           => /\ ret'.outcome = "token" /\ ret'.span = buf[ret'.n + 1].data
              /\ index' = index /\ input' = input /\ buf' = buf]_vars

\* C7 witness: peek_n at depth 1 answered from the buffer, behind an entry
\* of another kind.
C7_Witness ==
    /\ ret.op = "peek_n" /\ ret.n = 1 /\ ret.outcome = "token" /\ ret.cached
    /\ Len(buf) = 2 /\ buf[1].type_id # buf[2].type_id

\* C8: peek_n(n) on a buffer of fewer than n entries panics before it
\* parses: cursor, input and buffer are as before; and a token that peek_n(n)
\* parses lands at position n of the buffer.
C8_DepthOrderEnforced ==
    [][(ret'.op = "peek_n")
        => /\ Len(buf) < ret'.n
              => /\ ret'.outcome = "panic"
                 /\ index' = index
                 /\ input' = input
                 /\ buf' = buf
           /\ (ret'.outcome = "token" /\ ~ret'.cached)
              => /\ Len(buf) = ret'.n
                 /\ Len(buf') = ret'.n + 1
                 /\ buf'[ret'.n + 1].data = ret'.span]_vars

\* C8 witness: peek_n(2) has panicked on a buffer of one entry.
C8_Witness ==
    /\ ret.op = "peek_n" /\ ret.n = 2 /\ ret.outcome = "panic"
    /\ Len(buf) = 1

\* C9: a request for kind U at a position buffered as another kind (the
\* back entry for peek, the front entry for get, entry n for peek_n) panics
\* at once: no token, no no-match, no parse past the buffered position.
C9_RetypingIsFatal ==
    [][(\/ ret'.op = "peek" /\ buf # <<>> /\ ~Is(buf[Len(buf)], ret'.T)
        \/ ret'.op = "get" /\ buf # <<>> /\ ~Is(buf[1], ret'.T)
        \/ ret'.op = "peek_n" /\ Len(buf) > ret'.n /\ ~Is(buf[ret'.n + 1], ret'.T))
        => /\ ret'.outcome = "panic"
           /\ index' = index
           /\ input' = input
           /\ buf' = buf]_vars

\* C10: a call whose parse is NoMatch returns None and one whose parse is
\* Malformed returns the error; neither panics, and cursor, input and
\* buffer stay as they were, so the next parse starts at the same offset.
C10_NoMatchLeavesState ==
    [][/\ (Called' /\ ret'.outcome \in {"none", "err"})
          => /\ Parse(ret'.T, index, input).tag
                   = (IF ret'.outcome = "none" THEN "None" ELSE "Err")
             /\ index' = index
             /\ input' = input
             /\ buf' = buf
       /\ (Called' /\ ret'.outcome = "panic")
          => \/ Parse(ret'.T, index, input).tag = "Ok"
             \/ ret'.op = "peek_n" /\ Len(buf) # ret'.n
       /\ (ret.outcome \in {"none", "err"} /\ Called /\ ret'.outcome = "token" /\ ~ret'.cached)
          => ret'.span.start = index]_vars

\* C10 witness: past the start of the text, Ident was no match where the
\* input begins with a digit, and Number matches at that same offset.
C10_Witness ==
    /\ Called /\ ret.T = "Ident" /\ ret.outcome = "none"
    /\ index > 0
    /\ input # <<>> /\ IsAsciiDigit(Head(input))
    /\ Parse("Number", index, input).tag = "Ok"

\* C11: no returned token's span holds the offset of a white-space
\* character of orig.
C11_NoWhitespaceInSpans ==
    (Called /\ ret.outcome = "token")
        => \A c \in {SpanText(orig, ret.span.start, ret.span.end)[i] :
                        i \in 1..Len(SpanText(orig, ret.span.start, ret.span.end))} :
              ~IsWhitespace(c)

\* &s[a..b] with byte offsets: the text, or a panic when the range runs
\* past the end of s or a bound lies inside a character.
SliceRange(s, a, b) ==
    LET from == SliceFrom(s, a)
        upto == SliceFrom(s, b)
    IN  IF a <= b /\ from.ok /\ upto.ok
        THEN [ok |-> TRUE, text |-> SubSeq(from.rest, 1, Len(from.rest) - Len(upto.rest))]
        ELSE [ok |-> FALSE, text |-> <<>>]

\* Ident::eval(&self, lexer): &lexer.input[self.0.clone()], a slice of the
\* lexer's REMAINING input.
IdentEval(span) == SliceRange(input, span.start, span.end)

\* C12: evaluating an Ident that get returned gives the text of the original
\* input at the token's span, however far the cursor has advanced.
C12_EvalReadsOriginal ==
    (ret.op = "get" /\ ret.outcome = "token" /\ ret.T = "Ident" /\ ret.cell = "Ident")
        => IdentEval(ret.span)
             = [ok |-> TRUE, text |-> SpanText(orig, ret.span.start, ret.span.end)]

\* ------------------------------------------------- T::parse on its own
\* A single call T::parse(start, input) with start = index and the input
\* any text of at most MaxLen characters over ParseAlphabet (which has the
\* markers of hex and binary literals and characters of two bytes), or one
\* of a few longer literals.  ret records the call: span is the token's
\* span and n the second component of the result.
ParseAlphabet == {"+", " ", "b", "x", "0", "1", "2", ".", "e'", "nbsp"}
LongLiterals ==
    {<<"0", "5", "+", "3">>, <<"0", "b", "1", "0", "2">>, <<"0", "1", "b", "1">>,
     <<"0", "x", "1", "b", "x">>, <<"b", "e'", "b", " ", "b">>}
ParseInputs == UNION {[1..n -> ParseAlphabet] : n \in 0..MaxLen} \cup LongLiterals

InitParse ==
    /\ orig \in ParseInputs
    /\ input = orig
    /\ index \in 0..MaxStart
    /\ buf = <<>>
    /\ LOOKAHEAD = 1
    /\ ret = Outcome("new", "-", 0, "none", NoSpan, "-", FALSE, "")

ParseCall(T) ==
    /\ ret.op = "new"
    /\ LET r == Parse(T, index, input)
       IN  ret' = Outcome("parse", T, r.consumed,
                          CASE r.tag = "Ok" -> "token"
                            [] r.tag = "Err" -> "err"
                            [] r.tag = "None" -> "none",
                          r.tok, T, FALSE, "")
    /\ UNCHANGED <<orig, input, index, buf, LOOKAHEAD>>

NextParse == \E T \in Kinds : ParseCall(T)

SpecParse == InitParse /\ [][NextParse]_vars

\* C13: when T::parse(start, input) matches, the second component of its
\* result is the absolute offset just past the consumed text: start plus
\* the length of the matched text, the end of the token's span.
C13_ParseReturnsAbsoluteOffset ==
    (ret.op = "parse" /\ ret.outcome = "token")
        => /\ ret.span.start = index
           /\ ret.n = ret.span.end

\* --------------------------------------------- peek::<T>() then get::<T>()
\* A lexer whose caller takes every token by peek::<T>() followed by
\* get::<T>() of the same kind.
PeekNext(T) == buf = <<>> /\ Peek(T)

GetPeeked == buf # <<>> /\ Get(buf[1].type_id)

NextPeekGet ==
    \/ \E T \in Kinds : PeekNext(T)
    \/ GetPeeked

SpecPeekGet == Init /\ [][NextPeekGet]_vars

\* What get::<T>() parses here in a lexer driven by get alone, whose index
\* is the true offset of the remaining input (C3).
GetAlone(T) == Parse(T, TrueOffset, input)

\* C14: taking tokens by peek then get gives the kinds and spans that get
\* alone gives: a peek matches exactly when get alone would, its token has
\* the span get alone would return, it leaves the same remaining input, and
\* the get that follows returns that token.
C14_PeekGetRefinesGet ==
    [][/\ (ret'.op = "peek")
          => /\ ret'.outcome = (CASE GetAlone(ret'.T).tag = "Ok" -> "token"
                                  [] GetAlone(ret'.T).tag = "Err" -> "err"
                                  [] GetAlone(ret'.T).tag = "None" -> "none")
             /\ ret'.outcome = "token" => ret'.span = GetAlone(ret'.T).tok
             /\ input' = GetCursor(GetAlone(ret'.T)).input
       /\ (ret'.op = "get")
          => /\ ret'.outcome = "token"
             /\ ret'.span = buf[1].data
             /\ buf' = <<>>
             /\ input' = input]_vars

\* C15: in every state and for every kind T, peek::<T>() does what
\* peek_n::<T>(0) does: the same outcome and returned span and the same
\* cursor, remaining input and buffer afterwards; or both abort (peek_n(0)
\* aborts when entry 0 is of another kind).
C15_PeekIsPeekN0 ==
    [][\A T \in Kinds :
          Peek(T) =>
             \/ PeekNAs("peek", T, 0)
             \/ /\ ret'.outcome = "panic"
                /\ ~PeekNCached(T, 0) /\ ~DepthOk(0)]_vars

\* ------------------------------------- text with characters of two bytes
\* A lexer driven by get over texts that hold an alphabetic character and a
\* white-space character of two bytes each.
Utf8Alphabet == {"b", "e'", " ", "nbsp", "+"}
Utf8Inputs == UNION {[1..n -> Utf8Alphabet] : n \in 0..MaxLen}

InitUtf8 ==
    /\ orig \in Utf8Inputs
    /\ input = orig
    /\ index = 0
    /\ buf = <<>>
    /\ LOOKAHEAD \in 1..MaxLookahead
    /\ ret = Outcome("new", "-", 0, "none", NoSpan, "-", FALSE, "")

SpecUtf8 == InitUtf8 /\ [][NextGet]_vars

\* The call of this step got a match from T::parse (and returned the token,
\* or panicked afterwards).
ParsedNow ==
    /\ ret'.op \in {"peek", "peek_n", "get"}
    /\ ~ret'.cached
    /\ \/ ret'.outcome = "token"
       \/ ret'.outcome = "panic" /\ ret'.msg # "assertion failed: left == right"

\* C16: after every successful parse the remaining input is empty or begins
\* with a character that is not white space, what was removed from the
\* input is the token and the white space after it, and the cursor has
\* advanced by as much as was removed.
C16_TrimmedAfterParse ==
    [][ParsedNow
        => /\ input' = <<>> \/ ~IsWhitespace(Head(input'))
           /\ LET r == Parse(ret'.T, index, input)
              IN  /\ StrLen(input) - StrLen(input') >= r.consumed
                  /\ AllWhitespace(SpanText(input, r.consumed,
                                            StrLen(input) - StrLen(input')))
           /\ index' - index = StrLen(input) - StrLen(input')]_vars

\* The longest prefix of s made of alphabetic characters.
AlphabeticPrefix(s) == SubSeq(s, 1, CountWhile(s, Alphabetic))

\* C19: spans and cursor moves are in bytes: a matching Ident::parse
\* consumes the byte length of the longest alphabetic prefix, and after a
\* successful parse the call returns its token with the cursor at the first
\* byte of the next character that is not white space.
C19_BytesNotCharacters ==
    [][(Called' /\ ~ret'.cached /\ Parse(ret'.T, index, input).tag = "Ok")
        => /\ ret'.T = "Ident"
              => Parse("Ident", index, input).consumed = StrLen(AlphabeticPrefix(input))
           /\ ret'.outcome = "token"
           /\ input' = <<>> \/ ~IsWhitespace(Head(input'))
           /\ index' = TrueOffset']_vars

\* A numeric literal: 0x and hex digits, 0b and binary digits, or a decimal
\* digit and then decimal digits and '.'.
WellFormedNumber(t) ==
    LET body(k, class) == \A i \in (k + 1)..Len(t) : t[i] \in class
    IN  \/ Len(t) >= 2 /\ t[1] = "0" /\ t[2] = "x" /\ body(2, HexBody)
        \/ Len(t) >= 2 /\ t[1] = "0" /\ t[2] = "b" /\ body(2, BinaryBody)
        \/ Len(t) >= 1 /\ IsAsciiDigit(t[1]) /\ body(1, DecimalBody)

\* C17: whenever Number::parse matches, the text it consumed is one
\* well-formed numeric literal.
C17_NumberIsWellFormed ==
    (ret.op = "parse" /\ ret.T = "Number" /\ ret.outcome = "token")
        => WellFormedNumber(SpanText(input, 0, ret.n))

\* The step is a call that reached T::parse: it did not return a buffered
\* cell and did not stop at peek_n's assertion.
ReachedParser ==
    /\ ret'.op \in {"peek", "peek_n", "get"}
    /\ ~ret'.cached
    /\ ret'.msg # "assertion failed: left == right"

\* C18: every successful parse makes progress and lexing terminates.  The
\* remaining input is always a suffix of the original; a parse that matches
\* has consumed at least one byte and leaves a strictly shorter remaining
\* input (the byte length of the remaining input is a variant, so a text of
\* L bytes allows at most L successful parses); and once the remaining input
\* is empty it stays empty and every request that reaches the parser
\* returns no match.
C18_ParsesMakeProgress ==
    /\ [](/\ Len(input) <= Len(orig)
          /\ input = Drop(orig, Len(orig) - Len(input)))
    /\ [][(ReachedParser /\ Parse(ret'.T, index, input).tag = "Ok")
            => /\ Parse(ret'.T, index, input).consumed >= 1
               /\ ret'.msg # "byte index is not a char boundary"
                     => StrLen(input') < StrLen(input)]_vars
    /\ [][(ReachedParser /\ input = <<>>)
            => ret'.outcome = "none" /\ input' = <<>>]_vars

\* "+++" has been lexed to its end in three parses and a further request
\* has reached the parser.
C18_Witness ==
    /\ orig = <<"+", "+", "+">>
    /\ input = <<>>
    /\ Called /\ ~ret.cached
    /\ ret.outcome = "none"

====
